---- MODULE Spec2Model ----
(***************************************************************************)
(* Model of the calendar widget of pages/002 (components/calendar-widget.js)*)
(* and of the date arithmetic it is built on.                              *)
(*                                                                         *)
(* A JavaScript Date is modelled by its local calendar fields              *)
(* [year, month (0..11), date (1..31)]; the setters normalise overflowing  *)
(* fields through the day number, as the language's MakeDay does.          *)
(***************************************************************************)
EXTENDS Integers, Sequences, FiniteSets, TLC

\* ------------------------------------------------------------------------
\* Bounds of the model
\* ------------------------------------------------------------------------

\* Years of the anchors handed to getDateArray in GridSpec.
MinYear == 2024
MaxYear == 2027

\* ------------------------------------------------------------------------
\* Date arithmetic of the JavaScript Date object
\* ------------------------------------------------------------------------

\* Day number (days since 1970-01-01) of 1 January of year y.
DayFromYear(y) ==
    365 * (y - 1970) + ((y - 1969) \div 4) - ((y - 1901) \div 100)
        + ((y - 1601) \div 400)

InLeapYear(y) == y % 4 = 0 /\ (y % 100 # 0 \/ y % 400 = 0)

\* Days of year y before the first day of month m (0..12).
CommonYearDays == <<0, 31, 59, 90, 120, 151, 181, 212, 243, 273, 304, 334, 365>>

DaysBeforeMonth(y, m) ==
    CommonYearDays[m + 1] + (IF m >= 2 /\ InLeapYear(y) THEN 1 ELSE 0)

\* Day number of (year, month, date); month and date may lie outside their
\* calendar ranges and carry into the neighbouring months and years.
MakeDay(year, month, date) ==
    DayFromYear(year + (month \div 12))
        + DaysBeforeMonth(year + (month \div 12), month % 12) + date - 1

\* The year of day number t, given an estimate y0 that is at most one off.
YearNear(y0, t) ==
    IF DayFromYear(y0) > t THEN y0 - 1
    ELSE IF DayFromYear(y0 + 1) <= t THEN y0 + 1
    ELSE y0

YearFromDay(t) == YearNear(1970 + ((t * 400) \div 146097), t)

\* The month of the day dayInYear (0..365) of year y, given an estimate m0
\* that is the month or the one before it.
MonthNear(y, dayInYear, m0) ==
    IF dayInYear >= DaysBeforeMonth(y, m0 + 1) THEN m0 + 1 ELSE m0

DateInMonth(y, m, dayInYear) ==
    [year |-> y, month |-> m, date |-> dayInYear - DaysBeforeMonth(y, m) + 1]

DateInYear(y, dayInYear) ==
    DateInMonth(y, MonthNear(y, dayInYear, dayInYear \div 31), dayInYear)

DateOfYear(y, t) == DateInYear(y, t - DayFromYear(y))

\* The calendar fields of day number t.
DateFromDay(t) == DateOfYear(YearFromDay(t), t)

DayOf(d) == MakeDay(d.year, d.month, d.date)

\* Date.prototype.getDay: 0 = Sunday .. 6 = Saturday.
getDay(d) == (DayOf(d) + 4) % 7

setFullYear(d, year) == DateFromDay(MakeDay(year, d.month, d.date))

setMonth(d, month) == DateFromDay(MakeDay(d.year, month, d.date))

setDate(d, day) == DateFromDay(MakeDay(d.year, d.month, day))

\* ------------------------------------------------------------------------
\* tools
\* ------------------------------------------------------------------------

\* cloneDate with a day setter that does not carry below the first of the
\* month.
\* The three optional changes of cloneDate; opts is a record holding any of
\* the fields year, month, day.
WithYear(output, opts) ==
    IF "year" \in DOMAIN opts THEN setFullYear(output, opts.year) ELSE output

WithMonth(output, opts) ==
    IF "month" \in DOMAIN opts THEN setMonth(output, opts.month) ELSE output

WithDay(output, opts) ==
    IF "day" \in DOMAIN opts THEN setDate(output, opts.day) ELSE output

\* cloneDate with a day setter that does not carry below the first of the
\* month.
cloneDate_NoUnderflow(date, opts) ==
    IF "day" \in DOMAIN opts
    THEN setDate(WithMonth(WithYear(date, opts), opts),
                 IF opts.day < 1 THEN 1 ELSE opts.day)
    ELSE WithMonth(WithYear(date, opts), opts)

cloneDate(date, opts) == WithDay(WithMonth(WithYear(date, opts), opts), opts)

GridSize == 42

\* The loop of getDateArray: count dates, those of the days start, start + 1,
\* ... of the month of firstDate.
DatesFrom(firstDate, start, count) ==
    [i \in 1..count |-> cloneDate(firstDate, [day |-> start + (i - 1)])]

\* getDateArray that keeps the Sunday-first weekday index.
getDateArray_SundayFirst(date) ==
    DatesFrom(cloneDate(date, [day |-> 1]),
              1 - getDay(cloneDate(date, [day |-> 1])), GridSize)

\* The Monday-first weekday index of the first of the month.
MondayIndex(firstDate) == (getDay(firstDate) + 6) % 7

\* getDateArray that steps back a whole week when the month starts on a
\* Monday.
getDateArray_WeekBack(date) ==
    DatesFrom(cloneDate(date, [day |-> 1]),
              1 - (IF MondayIndex(cloneDate(date, [day |-> 1])) = 0 THEN 7
                   ELSE MondayIndex(cloneDate(date, [day |-> 1]))), GridSize)

\* getDateArray that takes the weekday of its argument, not of the first of
\* the month.
getDateArray_WeekdayOfDate(date) ==
    DatesFrom(cloneDate(date, [day |-> 1]), 1 - MondayIndex(date), GridSize)

getDateArray(date) ==
    DatesFrom(cloneDate(date, [day |-> 1]),
              1 - MondayIndex(cloneDate(date, [day |-> 1])), GridSize)

isSameDate(d1, d2) ==
    /\ d1.year = d2.year
    /\ d1.month = d2.month
    /\ d1.date = d2.date

DigitChars == <<"0", "1", "2", "3", "4", "5", "6", "7", "8", "9">>

\* The decimal digits of n as characters, zero-padded to width w.
PadStart(n, w) == [i \in 1..w |-> DigitChars[((n \div (10 ^ (w - i))) % 10) + 1]]

\* String(n) of a number 0..99, as a sequence of characters.
NumberToString(n) == IF n < 10 THEN PadStart(n, 1) ELSE PadStart(n, 2)

\* toOrdinal that has no exception for the teens.
toOrdinal_NoTeens(date) ==
    IF date.date % 10 = 1 THEN NumberToString(date.date) \o <<"s", "t">>
    ELSE IF date.date % 10 = 2 THEN NumberToString(date.date) \o <<"n", "d">>
    ELSE IF date.date % 10 = 3 THEN NumberToString(date.date) \o <<"r", "d">>
    ELSE NumberToString(date.date) \o <<"t", "h">>

\* The ordinal day string, as a sequence of characters.
toOrdinal(date) ==
    IF date.date > 3 /\ date.date < 21 THEN NumberToString(date.date) \o <<"t", "h">>
    ELSE IF date.date % 10 = 1 THEN NumberToString(date.date) \o <<"s", "t">>
    ELSE IF date.date % 10 = 2 THEN NumberToString(date.date) \o <<"n", "d">>
    ELSE IF date.date % 10 = 3 THEN NumberToString(date.date) \o <<"r", "d">>
    ELSE NumberToString(date.date) \o <<"t", "h">>

\* 'YYYY-MM-DD' of the local calendar fields, as a sequence of characters.
toShort(date) ==
    PadStart(date.year, 4) \o <<"-">> \o PadStart(date.month + 1, 2)
        \o <<"-">> \o PadStart(date.date, 2)

MonthNames ==
    <<"January", "February", "March", "April", "May", "June", "July",
      "August", "September", "October", "November", "December">>

toMonthName(date) == MonthNames[date.month + 1]

toYear(date) == date.year

\* ------------------------------------------------------------------------
\* State
\* ------------------------------------------------------------------------

VARIABLES
    anchor,         \* argument of a direct call of tools.getDateArray
    dates,          \* array returned by that call (<<>> before the call)
    ordinal,        \* string returned by tools.toOrdinal(anchor) (<<>> before)
    now,            \* the real current date, what new Date() samples
    tz,             \* local time zone, hours east of UTC
    dateToday,      \* CalendarWidget.dateToday
    dateChosen,     \* CalendarWidget.dateChosen
    dateDisplayed,  \* CalendarWidget.dateDisplayed
    onDayClick,     \* TRUE when the host has set CalendarWidget.onDayClick
    starredDates,   \* CalendarWidget.starredDates
    navigatorText,  \* text of #navigator-text: <<month name, year>>
    dayElements,    \* the 42 .day cells: textContent, dataset.date, classList
    timers,         \* number of pending setTimeout callbacks
    timerId,        \* number of setTimeout calls made so far
    event,          \* the event handled by the last step
    called,         \* onDayClick invocations made by the last step
    _db,            \* SimpleDatabase._db: 0 for null, else the connection it refers to
    connections,    \* the connections of the instance that are open
    storage,        \* committed content of the object store 'default'
    calls,          \* the calls made on the instance, in call order
    footerDate,     \* footerDate.dataset.date of the notes page
    textarea,       \* textarea.value of the notes page
    noteOf          \* the key of the date whose note the textarea holds

gridVars == <<anchor, dates, ordinal>>

widgetVars ==
    <<now, tz, dateToday, dateChosen, dateDisplayed, onDayClick, starredDates,
      navigatorText, dayElements, timers, timerId, event, called>>

dbVars == <<_db, connections, storage, calls>>

pageVars == <<footerDate, textarea, noteOf>>

vars == <<gridVars, widgetVars, dbVars, pageVars>>

\* ------------------------------------------------------------------------
\* Bounds of the widget model
\* ------------------------------------------------------------------------

\* Dates on which the widget is constructed.
ConstructionDates ==
    { [year |-> 2025, month |-> 0, date |-> 31] }

\* Local time zones, hours east of UTC.
TimeZones == {-5, 9}

\* Day cells (1..42) the user clicks.
ClickedCells == {1, 19, 33}

\* Navigation keeps dateDisplayed within this many months of dateToday.
MaxMonthsAway == 1

\* Day clicks that schedule a re-render.
MaxTimerId == 2

\* Entries the host pushes to starredDates.
MaxStarred == 1

\* Days the real date advances after construction.
MaxDaysElapsed == 1

MonthNumber(d) == d.year * 12 + d.month

MonthsApart(d1, d2) ==
    IF MonthNumber(d1) >= MonthNumber(d2)
    THEN MonthNumber(d1) - MonthNumber(d2)
    ELSE MonthNumber(d2) - MonthNumber(d1)

\* ------------------------------------------------------------------------
\* CalendarWidget
\* ------------------------------------------------------------------------

StateClasses == {"dimmed", "marked", "starred", "today"}

\* resetDayClasses that leaves the dimmed class in place.
resetDayClasses_KeepsDimmed(day) ==
    [day EXCEPT !.classList = @ \ {"marked", "starred", "today"}]

resetDayClasses(day) == [day EXCEPT !.classList = @ \ StateClasses]

\* isToday that compares with the date sampled at construction.
isToday_Snapshot(date) == isSameDate(date, dateToday)

isToday(date) == isSameDate(date, now)

Includes(seq, x) == \E i \in DOMAIN seq : seq[i] = x

\* shouldStar that looks the date itself up, not its key.
shouldStar_NoKey(date) == Includes(starredDates, date)

shouldStar(date) == Includes(starredDates, toShort(date))

\* DayClass that dims by the year instead of the month.
DayClass_DimsOtherYear(dateObject, date) ==
    IF dateObject.year # date.year THEN "dimmed"
    ELSE IF isToday(dateObject) THEN "today"
    ELSE IF isSameDate(dateObject, dateChosen) THEN "marked"
    ELSE IF shouldStar(dateObject) THEN "starred"
    ELSE ""

\* The class updateCalendar adds to the cell of dateObject when it renders
\* the month of date ("" when it adds none).
DayClass(dateObject, date) ==
    IF dateObject.month # date.month THEN "dimmed"
    ELSE IF isToday(dateObject) THEN "today"
    ELSE IF isSameDate(dateObject, dateChosen) THEN "marked"
    ELSE IF shouldStar(dateObject) THEN "starred"
    ELSE ""

\* classList.add(class); DayClass gives "" when no class is added.
AddClass(day, class) ==
    IF class = "" THEN day ELSE [day EXCEPT !.classList = @ \cup {class}]

\* RenderDay that appends the day number to the text of the cell.
RenderDay_AppendsText(dayElement, dateObject, date) ==
    [textContent |-> dayElement.textContent * 100 + dateObject.date,
     date |-> toShort(dateObject),
     classList |-> AddClass(resetDayClasses(dayElement),
                            DayClass(dateObject, date)).classList]

RenderDay(dayElement, dateObject, date) ==
    [textContent |-> dateObject.date,
     date |-> toShort(dateObject),
     classList |-> AddClass(resetDayClasses(dayElement),
                            DayClass(dateObject, date)).classList]

\* The cells as the shadow markup creates them.
BlankDays == [i \in 1..GridSize |-> [textContent |-> 0, date |-> <<>>, classList |-> {}]]

\* What updateCalendar(date) writes to the header.
RenderedText(date) == <<toMonthName(date), toYear(date)>>

\* What the loop of updateCalendar(date) makes of the cells elements, given
\* the array dateObjects of getDateArray(date).
RenderedDays(dateObjects, elements, date) ==
    [index \in 1..GridSize |-> RenderDay(elements[index], dateObjects[index], date)]

updateCalendar(date) ==
    /\ navigatorText' = RenderedText(date)
    /\ dayElements' = RenderedDays(getDateArray(date), dayElements, date)

navigateMonth(change) ==
    /\ dateDisplayed' = setMonth(dateDisplayed, dateDisplayed.month + change)
    /\ updateCalendar(dateDisplayed')

\* The value of each decimal digit character.
DigitValues ==
    ("0" :> 0) @@ ("1" :> 1) @@ ("2" :> 2) @@ ("3" :> 3) @@ ("4" :> 4) @@
    ("5" :> 5) @@ ("6" :> 6) @@ ("7" :> 7) @@ ("8" :> 8) @@ ("9" :> 9)

DigitValue(c) == DigitValues[c]

\* new Date('YYYY-MM-DD'): the string is read as midnight UTC of that day;
\* the result has the local calendar fields of that instant.
NewDateFromString(string) ==
    LET year == 1000 * DigitValue(string[1]) + 100 * DigitValue(string[2])
                  + 10 * DigitValue(string[3]) + DigitValue(string[4])
        month == 10 * DigitValue(string[6]) + DigitValue(string[7])
        day == 10 * DigitValue(string[9]) + DigitValue(string[10])
    IN  DateFromDay((MakeDay(year, month - 1, day) * 24 + tz) \div 24)

\* ------------------------------------------------------------------------
\* SimpleDatabase
\* ------------------------------------------------------------------------

\* A JavaScript value passed as an argument: its typeof and, for a string,
\* its characters (for a number, its decimal digits).
JsString(characters) == [typeof |-> "string", value |-> characters]

JsNumber(digits) == [typeof |-> "number", value |-> digits]

\* The argument of an operation that takes none.
NoArgument == [typeof |-> "undefined", value |-> <<>>]

\* The dates whose keys are used.
KeyDates ==
    { [year |-> 2025, month |-> 7, date |-> 3], [year |-> 2025, month |-> 7, date |-> 4] }

\* Values passed as the key of save and load: the keys of the two dates, the
\* empty string, a blank string and a number.
KeyArguments ==
    { JsString(toShort(date)) : date \in KeyDates }
        \cup { JsString(<<>>), JsString(<<" ">>), JsNumber(<<"5">>) }

\* Values passed as the value of save.
ValueArguments ==
    { JsString(<<"a">>), JsString(<<"b", " ">>), JsString(<<>>), JsString(<<" ">>),
      JsNumber(<<"5">>) }

\* Names of the errors IndexedDB reports on a request or a transaction.
ErrorNames == {"QuotaExceededError"}

\* Entries of calls: the calls made on the instance.
MaxCalls == 4

\* String.prototype.trim of a sequence of characters.
RECURSIVE trimStart(_)
trimStart(s) == IF s # <<>> /\ Head(s) = " " THEN trimStart(Tail(s)) ELSE s

RECURSIVE trimEnd(_)
trimEnd(s) ==
    IF s # <<>> /\ s[Len(s)] = " " THEN trimEnd(SubSeq(s, 1, Len(s) - 1)) ELSE s

trim(s) == trimEnd(trimStart(s))

\* validString that accepts every string that is not empty.
validString_NoTrim(args) ==
    \A i \in DOMAIN args : ~(args[i].typeof # "string" \/ args[i].value = <<>>)

validString(args) ==
    \A i \in DOMAIN args : ~(args[i].typeof # "string" \/ trim(args[i].value) = <<>>)

\* The keys the object store can hold, in the key order of IndexedDB.
StoredKeys == { key \in KeyArguments : validString(<<key>>) }

KeyOrder ==
    << JsString(toShort([year |-> 2025, month |-> 7, date |-> 3])),
       JsString(toShort([year |-> 2025, month |-> 7, date |-> 4])) >>

\* A promise not yet settled, the object a settled one resolved with, and a
\* promise rejected because its executor threw; message and data are <<>>
\* when the object has no such field.
Pending ==
    [settled |-> FALSE, rejected |-> FALSE, success |-> FALSE, message |-> <<>>,
     data |-> <<>>]

Result(success, message, data) ==
    [settled |-> TRUE, rejected |-> FALSE, success |-> success, message |-> message,
     data |-> data]

Rejected(name) ==
    [settled |-> TRUE, rejected |-> TRUE, success |-> FALSE, message |-> <<name>>,
     data |-> <<>>]

NotLinked == Result(FALSE, <<"Database not currently linked">>, <<>>)

\* resolve(result) of the promise of call: only the first resolve settles it.
resolve(call, result) ==
    IF call.result.settled THEN call ELSE [call EXCEPT !.result = result]

\* The record of a call: its request and its transaction, the promise it
\* returned, the earlier calls whose promises had settled when it was made,
\* the code that awaits it (then) and, for reset, the call it awaits.
Call(op, key, value, request, transaction, result) ==
    [op |-> op, key |-> key, value |-> value, request |-> request,
     transaction |-> transaction, result |-> result,
     settledBefore |-> { i \in DOMAIN calls : calls[i].result.settled },
     then |-> "none", awaits |-> 0]

\* The code that awaits the promise of call c can go on: the promise awaited
\* by reset, or by a handler of the page, has settled.
Ready(c) ==
    \/ /\ calls[c].awaits # 0
       /\ calls[calls[c].awaits].result.settled
    \/ /\ calls[c].then \in {"onDayClick", "load", "keydown"}
       /\ calls[c].result.settled

\* The microtask queue is empty: an event is handled only after every
\* continuation that is ready has run.
Drained == \A c \in DOMAIN calls : ~Ready(c)

\* The caller can make a call: no continuation is ready, or only that of a
\* reset whose _destroy resolved at once, within the call of reset, which
\* the caller's code can follow with other calls before the continuation
\* runs. After an event the continuations run before any other code.
Callable ==
    \A c \in DOMAIN calls :
        Ready(c) =>
            /\ calls[c].awaits # 0
            /\ calls[calls[c].awaits].op = "_destroy"
            /\ calls[calls[c].awaits].request = "none"

\* The state of a new instance over an empty database.
DbConstructed ==
    /\ _db = 0
    /\ connections = {}
    /\ storage = [key \in StoredKeys |-> <<>>]
    /\ calls = <<>>

\* IndexedDB runs transactions on the same store in the order of their
\* creation: a readwrite transaction (save) starts when every earlier
\* transaction has finished, a readonly one when every earlier readwrite
\* transaction has.
Started(c) ==
    \A i \in 1..(c - 1) :
        (calls[c].op = "save" \/ calls[i].op = "save") => calls[i].transaction # "active"

\* IndexedDB runs the open and delete requests on one database in the order
\* in which they were made; a blocked deletion keeps its place.
Queued(c) ==
    \A i \in 1..(c - 1) :
        calls[i].op \in {"open", "_destroy"} => calls[i].request \notin {"pending", "blocked"}

\* open that makes an open request also when linked.
OpenCall_Always == Call("open", NoArgument, NoArgument, "pending", "none", Pending)

\* The synchronous part of open: resolved at once when already linked, else
\* an open request.
OpenCall ==
    IF _db # 0
    THEN Call("open", NoArgument, NoArgument, "none", "none", Result(TRUE, <<>>, <<>>))
    ELSE Call("open", NoArgument, NoArgument, "pending", "none", Pending)

open ==
    /\ calls' = Append(calls, OpenCall)
    /\ UNCHANGED <<_db, connections, storage>>

\* request.onsuccess of the open request of call c: its result is a new
\* connection, named c.
OpenSuccess(c) ==
    /\ Drained
    /\ calls[c].op = "open"
    /\ calls[c].request = "pending"
    /\ Queued(c)
    /\ _db' = c
    /\ connections' = connections \cup {c}
    /\ calls' = [calls EXCEPT ![c] =
                    resolve([@ EXCEPT !.request = "success"], Result(TRUE, <<>>, <<>>))]
    /\ UNCHANGED storage

\* request.onerror of the open request of call c.
OpenError(c, name) ==
    /\ Drained
    /\ calls[c].op = "open"
    /\ calls[c].request = "pending"
    /\ Queued(c)
    /\ calls' = [calls EXCEPT ![c] =
                    resolve([@ EXCEPT !.request = "error"],
                            Result(FALSE, <<"Error in the opening process: ", name>>, <<>>))]
    /\ UNCHANGED <<_db, connections, storage>>

\* TransactionCall that validates the arguments before it looks at _db.
TransactionCall_ValidatesFirst(op, key, value, valid) ==
    IF ~valid
    THEN Call(op, key, value, "none", "none",
              Result(FALSE, <<"Expected a non-empty string">>, <<>>))
    ELSE IF _db = 0 THEN Call(op, key, value, "none", "none", NotLinked)
    ELSE IF _db \notin connections
    THEN Call(op, key, value, "none", "none", Rejected("InvalidStateError"))
    ELSE Call(op, key, value, "pending", "active", Pending)

\* The synchronous part of an operation that runs a transaction on the
\* linked connection: this._db.transaction() throws InvalidStateError on a
\* connection that is closed, and an exception in the executor rejects the
\* promise.
TransactionCall(op, key, value, valid) ==
    IF _db = 0 THEN Call(op, key, value, "none", "none", NotLinked)
    ELSE IF ~valid
    THEN Call(op, key, value, "none", "none",
              Result(FALSE, <<"Expected a non-empty string">>, <<>>))
    ELSE IF _db \notin connections
    THEN Call(op, key, value, "none", "none", Rejected("InvalidStateError"))
    ELSE Call(op, key, value, "pending", "active", Pending)

save(key, value) ==
    /\ calls' = Append(calls, TransactionCall("save", key, value, validString(<<key, value>>)))
    /\ UNCHANGED <<_db, connections, storage>>

\* request.onsuccess of the put request of call c: the value is written in
\* the transaction, which is still to commit.
PutSuccess(c) ==
    /\ Drained
    /\ calls[c].op = "save"
    /\ calls[c].request = "pending"
    /\ Started(c)
    /\ calls' = [calls EXCEPT ![c] =
                    resolve([@ EXCEPT !.request = "success"], Result(TRUE, <<>>, <<>>))]
    /\ UNCHANGED <<_db, connections, storage>>

\* request.onerror of the put request of call c, then the onerror and the
\* onabort of its transaction, which the unhandled error aborts.
PutError(c, name) ==
    /\ Drained
    /\ calls[c].op = "save"
    /\ calls[c].request = "pending"
    /\ Started(c)
    /\ calls' = [calls EXCEPT ![c] =
                    resolve([@ EXCEPT !.request = "error", !.transaction = "aborted"],
                            Result(FALSE, <<"Error in the saving process: ", name>>, <<>>))]
    /\ UNCHANGED <<_db, connections, storage>>

\* The transaction of the save call c commits (no handler is registered
\* for its complete event).
TransactionComplete(c) ==
    /\ Drained
    /\ calls[c].op = "save"
    /\ calls[c].request = "success"
    /\ calls[c].transaction = "active"
    /\ storage' = [storage EXCEPT ![calls[c].key] = <<calls[c].value>>]
    /\ calls' = [calls EXCEPT ![c].transaction = "complete"]
    /\ UNCHANGED <<_db, connections>>

\* The commit of the transaction of the save call c fails after its put
\* request succeeded: transaction.onerror and transaction.onabort run, and
\* the write is rolled back.
TransactionAbort(c, name) ==
    /\ Drained
    /\ calls[c].op = "save"
    /\ calls[c].request = "success"
    /\ calls[c].transaction = "active"
    /\ calls' = [calls EXCEPT ![c] =
                    resolve([@ EXCEPT !.transaction = "aborted"],
                            Result(FALSE, <<"Error in the saving process: ", name>>, <<>>))]
    /\ UNCHANGED <<_db, connections, storage>>

load(key) ==
    /\ calls' = Append(calls, TransactionCall("load", key, NoArgument, validString(<<key>>)))
    /\ UNCHANGED <<_db, connections, storage>>

\* request.onsuccess of the get request of call c; its readonly transaction
\* then finishes without effect.
GetSuccess(c) ==
    /\ Drained
    /\ calls[c].op = "load"
    /\ calls[c].request = "pending"
    /\ Started(c)
    /\ calls' = [calls EXCEPT ![c] =
                    resolve([@ EXCEPT !.request = "success", !.transaction = "complete"],
                            IF storage[calls[c].key] # <<>>
                            THEN Result(TRUE, <<>>, storage[calls[c].key])
                            ELSE Result(FALSE, <<"Data was nullish">>, <<>>))]
    /\ UNCHANGED <<_db, connections, storage>>

\* The operations that read in a readonly transaction.
ReadOps == {"load", "loadAll", "_loadAllKeys", "_loadAllValues"}

\* request.onerror of the request of the read call c, then the onerror and
\* the onabort of its transaction.
GetError(c, name) ==
    /\ Drained
    /\ calls[c].op \in ReadOps
    /\ calls[c].request = "pending"
    /\ Started(c)
    /\ calls' = [calls EXCEPT ![c] =
                    resolve([@ EXCEPT !.request = "error", !.transaction = "aborted"],
                            Result(FALSE, <<"Error in the loading process: ", name>>, <<>>))]
    /\ UNCHANGED <<_db, connections, storage>>

\* The keys held by a store, in key order.
Holds(store, key) == store[key] # <<>>

KeysOf(store) == SelectSeq(KeyOrder, LAMBDA key : Holds(store, key))

_loadAllKeys ==
    /\ calls' = Append(calls, TransactionCall("_loadAllKeys", NoArgument, NoArgument, TRUE))
    /\ UNCHANGED <<_db, connections, storage>>

\* request.onsuccess of the getAllKeys request of call c: an array, never
\* nullish.
GetAllKeysSuccess(c) ==
    /\ Drained
    /\ calls[c].op = "_loadAllKeys"
    /\ calls[c].request = "pending"
    /\ Started(c)
    /\ calls' = [calls EXCEPT ![c] =
                    resolve([@ EXCEPT !.request = "success", !.transaction = "complete"],
                            Result(TRUE, <<>>, <<KeysOf(storage)>>))]
    /\ UNCHANGED <<_db, connections, storage>>

_loadAllValues ==
    /\ calls' = Append(calls, TransactionCall("_loadAllValues", NoArgument, NoArgument, TRUE))
    /\ UNCHANGED <<_db, connections, storage>>

\* request.onsuccess of the getAll request of call c: the values in key
\* order.
GetAllSuccess(c) ==
    /\ Drained
    /\ calls[c].op = "_loadAllValues"
    /\ calls[c].request = "pending"
    /\ Started(c)
    /\ calls' = [calls EXCEPT ![c] =
                    resolve([@ EXCEPT !.request = "success", !.transaction = "complete"],
                            Result(TRUE, <<>>,
                                   <<[i \in DOMAIN KeysOf(storage) |->
                                         storage[KeysOf(storage)[i]][1]]>>))]
    /\ UNCHANGED <<_db, connections, storage>>

loadAll ==
    /\ calls' = Append(calls, TransactionCall("loadAll", NoArgument, NoArgument, TRUE))
    /\ UNCHANGED <<_db, connections, storage>>

\* The onsuccess events of the cursor request of call c, one for each
\* record and one at the end, in its one readonly transaction: data gets the
\* value of each key held.
CursorSuccess(c) ==
    /\ Drained
    /\ calls[c].op = "loadAll"
    /\ calls[c].request = "pending"
    /\ Started(c)
    /\ calls' = [calls EXCEPT ![c] =
                    resolve([@ EXCEPT !.request = "success", !.transaction = "complete"],
                            Result(TRUE, <<>>,
                                   <<[key \in { k \in DOMAIN storage : storage[k] # <<>> } |->
                                         storage[key][1]]>>))]
    /\ UNCHANGED <<_db, connections, storage>>

\* _close: on an unlinked instance nothing changes.
_close ==
    /\ connections' = connections \ {_db}
    /\ _db' = 0
    /\ UNCHANGED <<storage, calls>>

\* The synchronous part of _destroy: unlinked, it resolves at once; linked,
\* it closes the connection and requests the deletion of the database.
DestroyCall ==
    IF _db = 0 THEN Call("_destroy", NoArgument, NoArgument, "none", "none", NotLinked)
    ELSE Call("_destroy", NoArgument, NoArgument, "pending", "none", Pending)

_destroy ==
    /\ calls' = Append(calls, DestroyCall)
    /\ connections' = connections \ {_db}
    /\ _db' = 0
    /\ UNCHANGED storage

\* request.onsuccess of the deleteDatabase request of call c: the deletion
\* runs when no connection to the database is open and no transaction is
\* running.
DeleteSuccess(c) ==
    /\ Drained
    /\ calls[c].op = "_destroy"
    /\ calls[c].request \in {"pending", "blocked"}
    /\ Queued(c)
    /\ connections = {}
    /\ \A i \in DOMAIN calls : calls[i].transaction # "active"
    /\ storage' = [key \in StoredKeys |-> <<>>]
    /\ calls' = [calls EXCEPT ![c] =
                    resolve([@ EXCEPT !.request = "success"], Result(TRUE, <<>>, <<>>))]
    /\ UNCHANGED <<_db, connections>>

\* request.onblocked of the deleteDatabase request of call c: a connection
\* of this instance or of another tab is still open.
DeleteBlocked(c) ==
    /\ Drained
    /\ calls[c].op = "_destroy"
    /\ calls[c].request = "pending"
    /\ Queued(c)
    /\ calls' = [calls EXCEPT ![c] =
                    resolve([@ EXCEPT !.request = "blocked"],
                            Result(FALSE, <<"Error in the deletion process: ", "Error">>, <<>>))]
    /\ UNCHANGED <<_db, connections, storage>>

\* request.onerror of the deleteDatabase request of call c.
DeleteError(c, name) ==
    /\ Drained
    /\ calls[c].op = "_destroy"
    /\ calls[c].request \in {"pending", "blocked"}
    /\ Queued(c)
    /\ calls' = [calls EXCEPT ![c] =
                    resolve([@ EXCEPT !.request = "error"],
                            Result(FALSE, <<"Error in the deletion process: ", name>>, <<>>))]
    /\ UNCHANGED <<_db, connections, storage>>

\* reset up to its first await: it calls _destroy and awaits its promise.
reset ==
    /\ calls' = calls \o
                  << [Call("reset", NoArgument, NoArgument, "none", "none", Pending)
                         EXCEPT !.awaits = Len(calls) + 2],
                     [DestroyCall EXCEPT !.then = "reset"] >>
    /\ connections' = connections \ {_db}
    /\ _db' = 0
    /\ UNCHANGED storage

\* reset that calls open also after a failed _destroy.
ResetAfterDestroy_AlwaysOpens(c) ==
    /\ calls[c].op = "reset"
    /\ calls[c].awaits # 0
    /\ calls[calls[c].awaits].op = "_destroy"
    /\ calls[calls[c].awaits].result.settled
    /\ calls' = Append([calls EXCEPT ![c].awaits = Len(calls) + 1],
                       [OpenCall EXCEPT !.then = "reset"])
    /\ UNCHANGED <<_db, connections, storage>>

\* reset after the promise of its _destroy has settled: it returns the
\* failure, or calls open and awaits its promise.
ResetAfterDestroy(c) ==
    /\ calls[c].op = "reset"
    /\ calls[c].awaits # 0
    /\ calls[calls[c].awaits].op = "_destroy"
    /\ calls[calls[c].awaits].result.settled
    /\ calls' = IF ~calls[calls[c].awaits].result.success
                THEN [calls EXCEPT ![c] =
                         resolve([@ EXCEPT !.awaits = 0], calls[calls[c].awaits].result)]
                ELSE Append([calls EXCEPT ![c].awaits = Len(calls) + 1],
                            [OpenCall EXCEPT !.then = "reset"])
    /\ UNCHANGED <<_db, connections, storage>>

\* reset after the promise of its open has settled: it returns the failure,
\* or {success: true}.
ResetAfterOpen(c) ==
    /\ calls[c].op = "reset"
    /\ calls[c].awaits # 0
    /\ calls[calls[c].awaits].op = "open"
    /\ calls[calls[c].awaits].result.settled
    /\ calls' = [calls EXCEPT ![c] =
                    resolve([@ EXCEPT !.awaits = 0],
                            IF ~calls[calls[c].awaits].result.success
                            THEN calls[calls[c].awaits].result
                            ELSE Result(TRUE, <<>>, <<>>))]
    /\ UNCHANGED <<_db, connections, storage>>

\* The browser closes the linked connection abnormally (its close event,
\* for which the instance has no handler), as when the user clears the data
\* of the site.
ForcedClose ==
    /\ Drained
    /\ _db \in connections
    /\ connections' = connections \ {_db}
    /\ UNCHANGED <<_db, storage, calls>>

\* Entries of calls in use or reserved: a reset that awaits its _destroy may
\* still call open.
Room ==
    Len(calls) + Cardinality({ c \in DOMAIN calls :
                                  calls[c].op = "reset" /\ calls[c].awaits # 0
                                      /\ calls[calls[c].awaits].op = "_destroy" })

\* ------------------------------------------------------------------------
\* The notes page: footer date, textarea, and the handlers that await the
\* database
\* ------------------------------------------------------------------------

\* Texts the user types into the textarea.
TypedTexts == { <<"a">> }

\* Entries of calls in a run of the page.
MaxPageCalls == 5

\* Without the page there is no footer and no textarea.
PageConstructed ==
    /\ footerDate = <<>>
    /\ textarea = <<>>
    /\ noteOf = <<>>

\* The user replaces the content of the textarea by a note for the date the
\* footer shows.
Input(text) ==
    /\ Drained
    /\ textarea' = text
    /\ noteOf' = footerDate
    /\ UNCHANGED <<footerDate, dbVars, starredDates>>

\* widget.onDayClick(date) up to its await: the footer gets the date and
\* its key, and the note of the key is requested.
PageDayClick(date) ==
    /\ Drained
    /\ footerDate' = toShort(date)
    /\ calls' = Append(calls,
                      [TransactionCall("load", JsString(toShort(date)), NoArgument,
                                       validString(<<JsString(toShort(date))>>))
                          EXCEPT !.then = "onDayClick"])
    /\ UNCHANGED <<textarea, noteOf, _db, connections, storage, starredDates>>

\* The rest of a handler that awaited the load call c: the textarea gets the
\* note; without one, onDayClick empties it and the load handler of the page
\* leaves it.
AfterLoad(c) ==
    /\ calls[c].then \in {"onDayClick", "load"}
    /\ calls[c].result.settled
    /\ calls' = [calls EXCEPT ![c].then = "done"]
    /\ textarea' = IF calls[c].result.success THEN calls[c].result.data[1].value
                   ELSE IF calls[c].then = "onDayClick" THEN <<>>
                   ELSE textarea
    /\ noteOf' = IF calls[c].result.success \/ calls[c].then = "onDayClick"
                 THEN calls[c].key.value
                 ELSE noteOf
    /\ UNCHANGED <<footerDate, _db, connections, storage, starredDates>>

\* The keydown handler for Ctrl+S up to its await: it saves the content of
\* the textarea under the key of the footer.
KeydownCtrlS ==
    /\ Drained
    /\ calls' = Append(calls,
                      [TransactionCall("save", JsString(footerDate), JsString(textarea),
                                       validString(<<JsString(footerDate), JsString(textarea)>>))
                          EXCEPT !.then = "keydown"])
    /\ UNCHANGED <<footerDate, textarea, noteOf, _db, connections, storage, starredDates>>

\* The rest of the keydown handler that awaited the save call c.
AfterSave(c) ==
    /\ calls[c].then = "keydown"
    /\ calls[c].result.settled
    /\ calls' = [calls EXCEPT ![c].then = "done"]
    /\ starredDates' = IF calls[c].result.success
                       THEN Append(starredDates, calls[c].key.value)
                       ELSE starredDates
    /\ UNCHANGED <<footerDate, textarea, noteOf, _db, connections, storage>>

Event(type, target, index) == [type |-> type, target |-> target, index |-> index]

\* The state the constructor leaves: three samples of the current date, no
\* callback, no starred date, and the month of dateToday rendered into the
\* blank cells.
Constructed(today, zone) ==
    /\ now = today
    /\ tz = zone
    /\ dateToday = today
    /\ dateChosen = today
    /\ dateDisplayed = today
    /\ onDayClick = FALSE
    /\ starredDates = <<>>
    /\ navigatorText = RenderedText(dateToday)
    /\ dayElements = RenderedDays(getDateArray(dateToday), BlankDays, dateToday)
    /\ timers = 0
    /\ timerId = 0
    /\ event = Event("constructor", "", 0)
    /\ called = <<>>

Init ==
    /\ anchor = [year |-> 2025, month |-> 7, date |-> 1]
    /\ dates = <<>>
    /\ ordinal = <<>>
    /\ DbConstructed
    /\ PageConstructed
    /\ \E today \in ConstructionDates, zone \in TimeZones : Constructed(today, zone)

\* Click on the header label.
ClickNavigatorText ==
    /\ updateCalendar(dateToday)
    /\ event' = Event("click", "navigator-text", 0)
    /\ called' = <<>>
    /\ UNCHANGED <<now, tz, dateToday, dateChosen, dateDisplayed, onDayClick,
                   starredDates, timers, timerId>>

\* ClickNavigatorButton on a widget whose anchor is the dateToday object
\* itself, so that the navigation moves both.
ClickNavigatorButton_OnToday(change) ==
    /\ MonthsApart(setMonth(dateDisplayed, dateDisplayed.month + change), dateToday)
          <= MaxMonthsAway
    /\ navigateMonth(change)
    /\ dateToday' = dateDisplayed'
    /\ event' = Event("click", IF change < 0 THEN "navigator-left" ELSE "navigator-right", 0)
    /\ called' = <<>>
    /\ UNCHANGED <<now, tz, dateChosen, onDayClick, starredDates, timers, timerId>>

\* Click on the left (-1) or right (+1) arrow.
ClickNavigatorButton(change) ==
    /\ MonthsApart(setMonth(dateDisplayed, dateDisplayed.month + change), dateToday)
          <= MaxMonthsAway
    /\ navigateMonth(change)
    /\ event' = Event("click", IF change < 0 THEN "navigator-left" ELSE "navigator-right", 0)
    /\ called' = <<>>
    /\ UNCHANGED <<now, tz, dateToday, dateChosen, onDayClick, starredDates, timers, timerId>>

\* ClickDay that replaces the pending re-render by the new one.
ClickDay_Debounced(i) ==
    /\ event' = Event("click", "day", i)
    /\ IF onDayClick
       THEN /\ timerId < MaxTimerId
            /\ dateChosen' = NewDateFromString(dayElements[i].date)
            /\ called' = <<[date |-> dateChosen', element |-> i]>>
            /\ timers' = 1
            /\ timerId' = timerId + 1
       ELSE /\ called' = <<>>
            /\ UNCHANGED <<dateChosen, timers, timerId>>
    /\ UNCHANGED <<now, tz, dateToday, dateDisplayed, onDayClick, starredDates,
                   navigatorText, dayElements>>

\* Click on the day cell of index i (1..42).
ClickDay(i) ==
    /\ event' = Event("click", "day", i)
    /\ IF onDayClick
       THEN /\ timerId < MaxTimerId
            /\ dateChosen' = NewDateFromString(dayElements[i].date)
            /\ called' = <<[date |-> dateChosen', element |-> i]>>
            /\ timers' = timers + 1
            /\ timerId' = timerId + 1
       ELSE /\ called' = <<>>
            /\ UNCHANGED <<dateChosen, timers, timerId>>
    /\ UNCHANGED <<now, tz, dateToday, dateDisplayed, onDayClick, starredDates,
                   navigatorText, dayElements>>

\* Click inside the shadow root on none of the above: no target, the weekday
\* row, or the day grid between two cells.
OtherTargets == {"null", "weekday-row", "day-grid"}

\* ClickElsewhere that takes a click between two cells for a day click.
ClickElsewhere_GapSchedules(target) ==
    /\ event' = Event("click", target, 0)
    /\ IF target = "day-grid" /\ onDayClick /\ timers < MaxTimerId
       THEN /\ called' = <<[date |-> dateChosen, element |-> 0]>>
            /\ timers' = timers + 1
       ELSE /\ called' = <<>>
            /\ timers' = timers
    /\ UNCHANGED <<now, tz, dateToday, dateChosen, dateDisplayed, onDayClick,
                   starredDates, navigatorText, dayElements, timerId>>

ClickElsewhere(target) ==
    /\ event' = Event("click", target, 0)
    /\ called' = <<>>
    /\ UNCHANGED <<now, tz, dateToday, dateChosen, dateDisplayed, onDayClick,
                   starredDates, navigatorText, dayElements, timers, timerId>>

\* Timeout whose re-render empties starredDates.
Timeout_ClearsStars ==
    /\ timers > 0
    /\ timers' = timers - 1
    /\ updateCalendar(dateChosen)
    /\ starredDates' = <<>>
    /\ event' = Event("timeout", "", 0)
    /\ called' = <<>>
    /\ UNCHANGED <<now, tz, dateToday, dateChosen, dateDisplayed, onDayClick, timerId>>

\* The callback of a setTimeout of the day-click handler runs.
Timeout ==
    /\ timers > 0
    /\ timers' = timers - 1
    /\ updateCalendar(dateChosen)
    /\ event' = Event("timeout", "", 0)
    /\ called' = <<>>
    /\ UNCHANGED <<now, tz, dateToday, dateChosen, dateDisplayed, onDayClick,
                   starredDates, timerId>>

\* The host sets widget.onDayClick.
SetOnDayClick ==
    /\ ~onDayClick
    /\ onDayClick' = TRUE
    /\ event' = Event("host", "onDayClick", 0)
    /\ called' = <<>>
    /\ UNCHANGED <<now, tz, dateToday, dateChosen, dateDisplayed, starredDates,
                   navigatorText, dayElements, timers, timerId>>

\* The host pushes the key of a saved note to widget.starredDates.
PushStarred(key) ==
    /\ Len(starredDates) < MaxStarred
    /\ starredDates' = Append(starredDates, key)
    /\ event' = Event("host", "starredDates.push", 0)
    /\ called' = <<>>
    /\ UNCHANGED <<now, tz, dateToday, dateChosen, dateDisplayed, onDayClick,
                   navigatorText, dayElements, timers, timerId>>

\* The host calls widget.updateCalendar(new Date()).
HostUpdateCalendar ==
    /\ updateCalendar(now)
    /\ event' = Event("host", "updateCalendar", 0)
    /\ called' = <<>>
    /\ UNCHANGED <<now, tz, dateToday, dateChosen, dateDisplayed, onDayClick,
                   starredDates, timers, timerId>>

\* Midnight passes.
Midnight ==
    /\ DayOf(now) - DayOf(dateToday) < MaxDaysElapsed
    /\ now' = DateFromDay(DayOf(now) + 1)
    /\ event' = Event("clock", "", 0)
    /\ called' = <<>>
    /\ UNCHANGED <<tz, dateToday, dateChosen, dateDisplayed, onDayClick,
                   starredDates, navigatorText, dayElements, timers, timerId>>

\* The widget under user interaction, in a fixed environment.
Next ==
    \/ ClickNavigatorText /\ UNCHANGED <<gridVars, dbVars, pageVars>>
    \/ \E change \in {-1, 1} : ClickNavigatorButton(change) /\ UNCHANGED <<gridVars, dbVars, pageVars>>
    \/ \E i \in ClickedCells : ClickDay(i) /\ UNCHANGED <<gridVars, dbVars, pageVars>>
    \/ \E target \in OtherTargets : ClickElsewhere(target) /\ UNCHANGED <<gridVars, dbVars, pageVars>>
    \/ Timeout /\ UNCHANGED <<gridVars, dbVars, pageVars>>
    \/ SetOnDayClick /\ UNCHANGED <<gridVars, dbVars, pageVars>>

Spec == Init /\ [][Next]_vars

\* Local time zone of the host page runs.
HostTimeZones == {9}

\* Day cells (1..42) the user clicks in the host page runs.
HostClickedCells == {1, 19}

HostInit ==
    /\ anchor = [year |-> 2025, month |-> 7, date |-> 1]
    /\ dates = <<>>
    /\ ordinal = <<>>
    /\ DbConstructed
    /\ PageConstructed
    /\ \E today \in ConstructionDates, zone \in HostTimeZones : Constructed(today, zone)

\* The widget with its host page and the clock: the user's clicks on the
\* header, the arrows and the days, the timers, and the host's steps.
HostNext ==
    \/ ClickNavigatorText /\ UNCHANGED <<gridVars, dbVars, pageVars>>
    \/ \E change \in {-1, 1} : ClickNavigatorButton(change) /\ UNCHANGED <<gridVars, dbVars, pageVars>>
    \/ \E i \in HostClickedCells : ClickDay(i) /\ UNCHANGED <<gridVars, dbVars, pageVars>>
    \/ Timeout /\ UNCHANGED <<gridVars, dbVars, pageVars>>
    \/ SetOnDayClick /\ UNCHANGED <<gridVars, dbVars, pageVars>>
    \/ \E d \in {dateToday, dateChosen} : PushStarred(toShort(d)) /\ UNCHANGED <<gridVars, dbVars, pageVars>>
    \/ HostUpdateCalendar /\ UNCHANGED <<gridVars, dbVars, pageVars>>
    \/ Midnight /\ UNCHANGED <<gridVars, dbVars, pageVars>>

HostSpec == HostInit /\ [][HostNext]_vars

\* The steps that run a timer callback: Timeout is the only action that
\* decrements timers, and it is enabled exactly when a timer is pending.
TimerRuns == timers > 0 /\ timers' = timers - 1

\* The event loop runs every timer callback that is due.
FairSpec == Spec /\ WF_timers(TimerRuns)

\* ------------------------------------------------------------------------
\* Direct calls of tools.getDateArray
\* ------------------------------------------------------------------------

DaysInMonth(y, m) == DaysBeforeMonth(y, m + 1) - DaysBeforeMonth(y, m)

AnchorDates ==
    { [year |-> y, month |-> m, date |-> d] :
        y \in MinYear..MaxYear, m \in 0..11, d \in 1..31 }

GridInit ==
    /\ anchor \in { a \in AnchorDates : a.date <= DaysInMonth(a.year, a.month) }
    /\ dates = <<>>
    /\ ordinal = <<>>
    /\ DbConstructed
    /\ PageConstructed
    /\ Constructed([year |-> 2025, month |-> 7, date |-> 15], 0)

CallGetDateArray ==
    /\ dates = <<>>
    /\ dates' = getDateArray(anchor)
    /\ UNCHANGED <<anchor, ordinal, widgetVars, dbVars, pageVars>>

CallToOrdinal ==
    /\ ordinal = <<>>
    /\ ordinal' = toOrdinal(anchor)
    /\ UNCHANGED <<anchor, dates, widgetVars, dbVars, pageVars>>

GridNext == CallGetDateArray \/ CallToOrdinal

GridSpec == GridInit /\ [][GridNext]_vars

\* ------------------------------------------------------------------------
\* Calls on one SimpleDatabase instance
\* ------------------------------------------------------------------------

\* The pairs of key and value passed to save.
SaveArguments ==
    { <<key, value>> \in KeyArguments \X ValueArguments :
        key = KeyOrder[1] \/ value = JsString(<<"a">>) }

DbInit ==
    /\ anchor = [year |-> 2025, month |-> 7, date |-> 1]
    /\ dates = <<>>
    /\ ordinal = <<>>
    /\ DbConstructed
    /\ PageConstructed
    /\ Constructed([year |-> 2025, month |-> 7, date |-> 15], 0)

DbNext ==
    \/ Room < MaxCalls /\ open /\ UNCHANGED <<gridVars, widgetVars, pageVars>>
    \/ \E c \in DOMAIN calls : OpenSuccess(c) /\ UNCHANGED <<gridVars, widgetVars, pageVars>>
    \/ \E c \in DOMAIN calls, name \in ErrorNames :
          OpenError(c, name) /\ UNCHANGED <<gridVars, widgetVars, pageVars>>
    \/ \E arguments \in SaveArguments :
          /\ Room < MaxCalls
          /\ save(arguments[1], arguments[2])
          /\ UNCHANGED <<gridVars, widgetVars, pageVars>>
    \/ \E c \in DOMAIN calls : PutSuccess(c) /\ UNCHANGED <<gridVars, widgetVars, pageVars>>
    \/ \E c \in DOMAIN calls, name \in ErrorNames :
          PutError(c, name) /\ UNCHANGED <<gridVars, widgetVars, pageVars>>
    \/ \E c \in DOMAIN calls :
          TransactionComplete(c) /\ UNCHANGED <<gridVars, widgetVars, pageVars>>
    \/ \E c \in DOMAIN calls, name \in ErrorNames :
          TransactionAbort(c, name) /\ UNCHANGED <<gridVars, widgetVars, pageVars>>
    \/ \E key \in KeyArguments :
          Room < MaxCalls /\ load(key) /\ UNCHANGED <<gridVars, widgetVars, pageVars>>
    \/ \E c \in DOMAIN calls : GetSuccess(c) /\ UNCHANGED <<gridVars, widgetVars, pageVars>>
    \/ \E c \in DOMAIN calls, name \in ErrorNames :
          GetError(c, name) /\ UNCHANGED <<gridVars, widgetVars, pageVars>>
    \/ Room < MaxCalls /\ loadAll /\ UNCHANGED <<gridVars, widgetVars, pageVars>>
    \/ \E c \in DOMAIN calls : CursorSuccess(c) /\ UNCHANGED <<gridVars, widgetVars, pageVars>>
    \/ Room < MaxCalls /\ _loadAllKeys /\ UNCHANGED <<gridVars, widgetVars, pageVars>>
    \/ \E c \in DOMAIN calls :
          GetAllKeysSuccess(c) /\ UNCHANGED <<gridVars, widgetVars, pageVars>>

DbSpec == DbInit /\ [][DbNext]_vars

\* ------------------------------------------------------------------------
\* One SimpleDatabase instance that is opened, written, read and reset
\* ------------------------------------------------------------------------

\* Entries of calls in a run with reset.
MaxLifeCalls == 6

LifeNext ==
    \/ Callable /\ Room < MaxLifeCalls /\ open /\ UNCHANGED <<gridVars, widgetVars, pageVars>>
    \/ \E c \in DOMAIN calls : OpenSuccess(c) /\ UNCHANGED <<gridVars, widgetVars, pageVars>>
    \/ \E c \in DOMAIN calls, name \in ErrorNames :
          OpenError(c, name) /\ UNCHANGED <<gridVars, widgetVars, pageVars>>
    \/ Callable /\ Room + 3 <= MaxLifeCalls /\ reset /\ UNCHANGED <<gridVars, widgetVars, pageVars>>
    \/ \E c \in DOMAIN calls : DeleteSuccess(c) /\ UNCHANGED <<gridVars, widgetVars, pageVars>>
    \/ \E c \in DOMAIN calls : DeleteBlocked(c) /\ UNCHANGED <<gridVars, widgetVars, pageVars>>
    \/ \E c \in DOMAIN calls, name \in ErrorNames :
          DeleteError(c, name) /\ UNCHANGED <<gridVars, widgetVars, pageVars>>
    \/ \E c \in DOMAIN calls : ResetAfterDestroy(c) /\ UNCHANGED <<gridVars, widgetVars, pageVars>>
    \/ \E c \in DOMAIN calls : ResetAfterOpen(c) /\ UNCHANGED <<gridVars, widgetVars, pageVars>>
    \/ /\ Callable
       /\ Room < MaxLifeCalls
       /\ save(KeyOrder[1], JsString(<<"a">>))
       /\ UNCHANGED <<gridVars, widgetVars, pageVars>>
    \/ \E c \in DOMAIN calls : PutSuccess(c) /\ UNCHANGED <<gridVars, widgetVars, pageVars>>
    \/ \E c \in DOMAIN calls : TransactionComplete(c) /\ UNCHANGED <<gridVars, widgetVars, pageVars>>
    \/ Callable /\ Room < MaxLifeCalls /\ loadAll /\ UNCHANGED <<gridVars, widgetVars, pageVars>>
    \/ \E c \in DOMAIN calls : CursorSuccess(c) /\ UNCHANGED <<gridVars, widgetVars, pageVars>>

LifeSpec == DbInit /\ [][LifeNext]_vars

\* ------------------------------------------------------------------------
\* One SimpleDatabase instance that is opened, closed and destroyed
\* ------------------------------------------------------------------------

\* Entries of calls in a run with close.
MaxCloseCalls == 3

\* The pairs of key and value passed to save in a run with close.
CloseSaveArguments ==
    { <<KeyOrder[1], JsString(<<"a">>)>>, <<JsString(<<>>), JsString(<<"a">>)>> }

\* The keys passed to load in a run with close.
CloseLoadArguments == { KeyOrder[1], JsString(<<>>) }

CloseNext ==
    \/ Room < MaxCloseCalls /\ open /\ UNCHANGED <<gridVars, widgetVars, pageVars>>
    \/ \E c \in DOMAIN calls : OpenSuccess(c) /\ UNCHANGED <<gridVars, widgetVars, pageVars>>
    \/ \E c \in DOMAIN calls, name \in ErrorNames :
          OpenError(c, name) /\ UNCHANGED <<gridVars, widgetVars, pageVars>>
    \/ _close /\ UNCHANGED <<gridVars, widgetVars, pageVars>>
    \/ ForcedClose /\ UNCHANGED <<gridVars, widgetVars, pageVars>>
    \/ Room < MaxCloseCalls /\ _destroy /\ UNCHANGED <<gridVars, widgetVars, pageVars>>
    \/ \E c \in DOMAIN calls : DeleteSuccess(c) /\ UNCHANGED <<gridVars, widgetVars, pageVars>>
    \/ \E c \in DOMAIN calls : DeleteBlocked(c) /\ UNCHANGED <<gridVars, widgetVars, pageVars>>
    \/ \E c \in DOMAIN calls, name \in ErrorNames :
          DeleteError(c, name) /\ UNCHANGED <<gridVars, widgetVars, pageVars>>
    \/ \E arguments \in CloseSaveArguments :
          /\ Room < MaxCloseCalls
          /\ save(arguments[1], arguments[2])
          /\ UNCHANGED <<gridVars, widgetVars, pageVars>>
    \/ \E c \in DOMAIN calls : PutSuccess(c) /\ UNCHANGED <<gridVars, widgetVars, pageVars>>
    \/ \E c \in DOMAIN calls, name \in ErrorNames :
          PutError(c, name) /\ UNCHANGED <<gridVars, widgetVars, pageVars>>
    \/ \E c \in DOMAIN calls : TransactionComplete(c) /\ UNCHANGED <<gridVars, widgetVars, pageVars>>
    \/ \E c \in DOMAIN calls, name \in ErrorNames :
          TransactionAbort(c, name) /\ UNCHANGED <<gridVars, widgetVars, pageVars>>
    \/ \E key \in CloseLoadArguments :
          Room < MaxCloseCalls /\ load(key) /\ UNCHANGED <<gridVars, widgetVars, pageVars>>
    \/ \E c \in DOMAIN calls : GetSuccess(c) /\ UNCHANGED <<gridVars, widgetVars, pageVars>>
    \/ \E c \in DOMAIN calls, name \in ErrorNames :
          GetError(c, name) /\ UNCHANGED <<gridVars, widgetVars, pageVars>>
    \/ Room < MaxCloseCalls /\ loadAll /\ UNCHANGED <<gridVars, widgetVars, pageVars>>
    \/ \E c \in DOMAIN calls : CursorSuccess(c) /\ UNCHANGED <<gridVars, widgetVars, pageVars>>
    \/ Room < MaxCloseCalls /\ _loadAllKeys /\ UNCHANGED <<gridVars, widgetVars, pageVars>>
    \/ \E c \in DOMAIN calls : GetAllKeysSuccess(c) /\ UNCHANGED <<gridVars, widgetVars, pageVars>>
    \/ Room < MaxCloseCalls /\ _loadAllValues /\ UNCHANGED <<gridVars, widgetVars, pageVars>>
    \/ \E c \in DOMAIN calls : GetAllSuccess(c) /\ UNCHANGED <<gridVars, widgetVars, pageVars>>

CloseSpec == DbInit /\ [][CloseNext]_vars

\* ------------------------------------------------------------------------
\* The notes page over an empty database
\* ------------------------------------------------------------------------

\* The page when its load handler awaits the note of today: the database is
\* open and empty, the widget shows today, the footer has the key of today.
PageInit ==
    /\ anchor = [year |-> 2025, month |-> 7, date |-> 1]
    /\ dates = <<>>
    /\ ordinal = <<>>
    /\ Constructed([year |-> 2025, month |-> 7, date |-> 3], 0)
    /\ _db = 1
    /\ connections = {1}
    /\ storage = [key \in StoredKeys |-> <<>>]
    /\ calls = << [op |-> "open", key |-> NoArgument, value |-> NoArgument,
                   request |-> "success", transaction |-> "none",
                   result |-> Result(TRUE, <<>>, <<>>), settledBefore |-> {},
                   then |-> "done", awaits |-> 0],
                  [op |-> "load", key |-> JsString(toShort(dateToday)),
                   value |-> NoArgument, request |-> "pending",
                   transaction |-> "active", result |-> Pending,
                   settledBefore |-> {1}, then |-> "load", awaits |-> 0] >>
    /\ footerDate = toShort(dateToday)
    /\ textarea = <<>>
    /\ noteOf = toShort(dateToday)

PageFrame ==
    UNCHANGED <<gridVars, now, tz, dateToday, dateChosen, dateDisplayed, onDayClick,
                navigatorText, dayElements, timers, timerId, event, called>>

PageNext ==
    \/ \E text \in TypedTexts : Input(text) /\ PageFrame
    \/ \E date \in KeyDates : Room < MaxPageCalls /\ PageDayClick(date) /\ PageFrame
    \/ \E c \in DOMAIN calls : AfterLoad(c) /\ PageFrame
    \/ Room < MaxPageCalls /\ KeydownCtrlS /\ PageFrame
    \/ \E c \in DOMAIN calls : AfterSave(c) /\ PageFrame
    \/ \E c \in DOMAIN calls : PutSuccess(c) /\ UNCHANGED <<gridVars, widgetVars, pageVars>>
    \/ \E c \in DOMAIN calls, name \in ErrorNames :
          PutError(c, name) /\ UNCHANGED <<gridVars, widgetVars, pageVars>>
    \/ \E c \in DOMAIN calls :
          TransactionComplete(c) /\ UNCHANGED <<gridVars, widgetVars, pageVars>>
    \/ \E c \in DOMAIN calls : GetSuccess(c) /\ UNCHANGED <<gridVars, widgetVars, pageVars>>

PageSpec == PageInit /\ [][PageNext]_vars

\* ------------------------------------------------------------------------
\* Calendar notions used to state the properties (independent of the
\* day-number arithmetic above)
\* ------------------------------------------------------------------------

Date(y, m, d) == [year |-> y, month |-> m, date |-> d]

MonthLength(y, m) ==
    IF m = 1
    THEN (IF (y % 4 = 0 /\ y % 100 # 0) \/ y % 400 = 0 THEN 29 ELSE 28)
    ELSE IF m \in {3, 5, 8, 10} THEN 30 ELSE 31

NextDay(d) ==
    IF d.date < MonthLength(d.year, d.month) THEN Date(d.year, d.month, d.date + 1)
    ELSE IF d.month < 11 THEN Date(d.year, d.month + 1, 1)
    ELSE Date(d.year + 1, 0, 1)

SameMonth(d, y, m) == d.year = y /\ d.month = m

InPrevMonth(d, a) ==
    IF a.month = 0 THEN SameMonth(d, a.year - 1, 11)
    ELSE SameMonth(d, a.year, a.month - 1)

InNextMonth(d, a) ==
    IF a.month = 11 THEN SameMonth(d, a.year + 1, 0)
    ELSE SameMonth(d, a.year, a.month + 1)

\* Monday-indexed weekday of the first of the anchor's month.
FirstOffset(a) == (getDay(Date(a.year, a.month, 1)) + 6) % 7

Leading(a, grid) == Cardinality({ i \in DOMAIN grid : InPrevMonth(grid[i], a) })

Trailing(a, grid) == Cardinality({ i \in DOMAIN grid : InNextMonth(grid[i], a) })

\* ------------------------------------------------------------------------
\* Properties of getDateArray (GridSpec)
\* ------------------------------------------------------------------------

\* C1: for every anchor date getDateArray returns exactly 42 dates, each one
\* calendar day after the previous one, the first a Monday and the last a
\* Sunday.
C1_GridShape ==
    dates # <<>> =>
        /\ Len(dates) = 42
        /\ \A i \in 1..(Len(dates) - 1) : dates[i + 1] = NextDay(dates[i])
        /\ getDay(dates[1]) = 1
        /\ getDay(dates[Len(dates)]) = 0

C1_Witness == dates # <<>> /\ anchor = Date(2024, 1, 29)

\* C2: the days 1..L of the anchor month sit at indices k..k+L-1 (0-based) in
\* order, every index before k holds a date of the previous month and every
\* index from k+L on a date of the next month; for anchor 2025-08-01 index 0
\* is 2025-07-28, index 4 is 2025-08-01 and index 41 is 2025-09-07.
C2_MonthPlacement ==
    dates # <<>> =>
        LET L == MonthLength(anchor.year, anchor.month)
            k == FirstOffset(anchor)
        IN  /\ \A i \in DOMAIN dates :
                  IF i <= k THEN InPrevMonth(dates[i], anchor)
                  ELSE IF i <= k + L
                       THEN dates[i] = Date(anchor.year, anchor.month, i - k)
                       ELSE InNextMonth(dates[i], anchor)
            /\ (anchor = Date(2025, 7, 1) =>
                  /\ dates[1] = Date(2025, 6, 28)
                  /\ dates[5] = Date(2025, 7, 1)
                  /\ dates[42] = Date(2025, 8, 7))

C2_Witness == dates # <<>> /\ anchor = Date(2025, 7, 1) /\ dates[5] = anchor

\* C3 as stated: 0..6 leading previous-month days and 1..7 trailing
\* next-month days, 42 in total.
C3_Original ==
    dates # <<>> =>
        /\ Leading(anchor, dates) \in 0..6
        /\ Trailing(anchor, dates) \in 1..7
        /\ Leading(anchor, dates) + MonthLength(anchor.year, anchor.month)
              + Trailing(anchor, dates) = 42

\* C3 (amended): the grid holds 0..6 leading previous-month days and 5..14
\* trailing next-month days, which with the anchor month's days total 42.
C3_LeadingTrailing ==
    dates # <<>> =>
        /\ Leading(anchor, dates) \in 0..6
        /\ Trailing(anchor, dates) \in 5..14
        /\ Leading(anchor, dates) + MonthLength(anchor.year, anchor.month)
              + Trailing(anchor, dates) = 42

\* February 2027 starts on a Monday: no leading day, 14 trailing days.
C3_Witness ==
    /\ dates # <<>>
    /\ anchor = Date(2027, 1, 10)
    /\ Leading(anchor, dates) = 0
    /\ Trailing(anchor, dates) = 14

\* ------------------------------------------------------------------------
\* Notions used to state the widget's properties
\* ------------------------------------------------------------------------

\* The header text of the month of d.
LabelOf(d) == <<MonthNames[d.month + 1], d.year>>

\* The month (year * 12 + month index) a header text names.
LabelMonth(text) ==
    text[2] * 12 + (CHOOSE m \in 0..11 : MonthNames[m + 1] = text[1])

\* The calendar date a YYYY-MM-DD key names.
KeyDate(key) ==
    Date(1000 * DigitValue(key[1]) + 100 * DigitValue(key[2])
            + 10 * DigitValue(key[3]) + DigitValue(key[4]),
         10 * DigitValue(key[6]) + DigitValue(key[7]) - 1,
         10 * DigitValue(key[9]) + DigitValue(key[10]))

CellsWith(elements, class) == { i \in DOMAIN elements : class \in elements[i].classList }

IsClick(e, target) == e.type = "click" /\ e.target = target

IsNavigation(e) == IsClick(e, "navigator-left") \/ IsClick(e, "navigator-right")

ChangeOf(e) == IF e.target = "navigator-left" THEN -1 ELSE 1

\* C14: getDateArray depends only on the year and the month of its argument:
\* every date of the anchor's month gives the same 42 dates in the same order.
C14_OnlyYearAndMonth ==
    dates # <<>> =>
        \A d \in 1..MonthLength(anchor.year, anchor.month) :
            getDateArray(Date(anchor.year, anchor.month, d)) = dates

\* The grid of a last day of a month: March 31st, 2026.
C14_Witness ==
    /\ dates # <<>>
    /\ anchor = Date(2026, 2, 31)
    /\ getDateArray(Date(2026, 2, 1)) = dates

\* The ordinal suffix of the day number n by the rule of the teens.
SuffixOf(n) ==
    IF n \in {11, 12, 13} THEN <<"t", "h">>
    ELSE IF n % 10 = 1 THEN <<"s", "t">>
    ELSE IF n % 10 = 2 THEN <<"n", "d">>
    ELSE IF n % 10 = 3 THEN <<"r", "d">>
    ELSE <<"t", "h">>

\* The decimal digits of the day number n, 1..31, without padding.
DigitsOf(n) ==
    IF n < 10 THEN <<DigitChars[n + 1]>>
    ELSE <<DigitChars[(n \div 10) + 1], DigitChars[(n % 10) + 1]>>

\* C16: for every day of the month 1..31, toOrdinal returns the day number
\* followed by "th" for 11, 12 and 13, and otherwise by "st", "nd", "rd" for
\* a last digit 1, 2, 3 and "th" for any other.
C16_OrdinalSuffix ==
    ordinal # <<>> => ordinal = DigitsOf(anchor.date) \o SuffixOf(anchor.date)

\* toOrdinal has returned 12th, a teen with last digit 2.
C16_Witness ==
    /\ anchor.date = 12
    /\ ordinal = <<"1", "2", "t", "h">>

\* ------------------------------------------------------------------------
\* Properties of the widget (Spec, FairSpec)
\* ------------------------------------------------------------------------

\* C4: navigateMonth(delta) makes the displayed month exactly delta calendar
\* months after the previously displayed month, whatever the day-of-month of
\* the anchor, and re-renders that month.
C4_NavigateExact ==
    [][IsNavigation(event') =>
          /\ LabelMonth(navigatorText') = LabelMonth(navigatorText) + ChangeOf(event')
          /\ MonthNumber(dateDisplayed') = LabelMonth(navigatorText')]_vars

\* C5: a click on the header label sets the anchor to the current date and
\* re-renders, so that the anchor's month is the current month and a
\* following navigateMonth(d) displays the month d months from the current
\* month.
C5_HeaderSetsAnchor ==
    [][/\ IsClick(event', "navigator-text") =>
            /\ MonthNumber(dateDisplayed') = MonthNumber(now)
            /\ navigatorText' = LabelOf(now)
       /\ (IsClick(event, "navigator-text") /\ IsNavigation(event')) =>
            LabelMonth(navigatorText') = MonthNumber(now) + ChangeOf(event')]_vars

\* C6: after every render the rendered month (the header label and the cells
\* that are not dimmed) is the month of dateDisplayed.
C6_RenderedIsDisplayed ==
    /\ navigatorText = LabelOf(dateDisplayed)
    /\ \A i \in DOMAIN dayElements :
          ("dimmed" \notin dayElements[i].classList)
              <=> SameMonth(KeyDate(dayElements[i].date),
                            dateDisplayed.year, dateDisplayed.month)

\* C7: a click on a day cell while onDayClick is registered sets dateChosen to
\* the date of that cell, in any time zone, and the delayed re-render shows
\* exactly that cell as marked.
C7_ClickMarksCell ==
    [][/\ (IsClick(event', "day") /\ onDayClick) =>
            dateChosen' = KeyDate(dayElements[event'.index].date)
       /\ (event'.type = "timeout" /\ timers' = 0) =>
            /\ Cardinality(CellsWith(dayElements', "marked")) = 1
            /\ \A i \in CellsWith(dayElements', "marked") :
                  KeyDate(dayElements'[i].date) = dateChosen]_vars

\* C8: every click on a day cell sets dateChosen to the date of that cell and
\* schedules one delayed re-render, whether or not onDayClick is registered.
C8_ClickAlwaysSchedules ==
    [][IsClick(event', "day") =>
          /\ dateChosen' = KeyDate(dayElements[event'.index].date)
          /\ timers' = timers + 1]_vars

\* C9: onDayClick is invoked exactly once by a click on a day cell, with the
\* chosen date and the clicked cell, and by nothing else; a click on neither
\* a day cell nor a navigator control invokes nothing, schedules nothing and
\* leaves the widget as it was.
C9_CallbackOnlyOnDayClick ==
    [][/\ (IsClick(event', "day") /\ onDayClick) =>
            called' = <<[date |-> dateChosen', element |-> event'.index]>>
       /\ ~(IsClick(event', "day") /\ onDayClick) => called' = <<>>
       /\ (event'.type = "click" /\ event'.target \in OtherTargets) =>
            UNCHANGED <<dateToday, dateChosen, dateDisplayed, onDayClick,
                        starredDates, navigatorText, dayElements, timers, timerId>>]_vars

C9_Witness ==
    /\ IsClick(event, "day")
    /\ Len(called) = 1
    /\ called[1].element = event.index
    /\ timers > 0

\* C10: every day click that schedules a re-render adds one timer, only the
\* timer's own callback removes it (no click or navigation cancels it), the
\* k-th scheduled timer eventually fires, and the re-render shows the month
\* of the dateChosen current when it fires, marking no other date.
C10_TimerAlwaysFires ==
    /\ [][/\ (IsClick(event', "day") /\ onDayClick) =>
               (timers' = timers + 1 /\ timerId' = timerId + 1)
          /\ (event'.type = "timeout") =>
               /\ timers' = timers - 1
               /\ navigatorText' = LabelOf(dateChosen')
               /\ \A i \in CellsWith(dayElements', "marked") :
                     dayElements'[i].date = toShort(dateChosen')
          /\ (event'.type # "timeout") => timers' >= timers]_vars
    /\ \A k \in 1..MaxTimerId : (timerId >= k) ~> (timerId - timers >= k)

\* The first of two re-renders scheduled in one delay window has run.
C10_Witness ==
    /\ event.type = "timeout"
    /\ timerId = 2
    /\ timers = 1
    /\ navigatorText = LabelOf(dateChosen)

\* C12: in every rendered grid a cell is dimmed if and only if its (year,
\* month) differs from the (year, month) the grid was rendered for, which the
\* header names; this covers leading and trailing days and the turn of the
\* year.
C12_DimmedIffOtherMonth ==
    \A i \in DOMAIN dayElements :
        ("dimmed" \in dayElements[i].classList)
            <=> MonthNumber(KeyDate(dayElements[i].date)) # LabelMonth(navigatorText)

\* December 2024 rendered: its own days are not dimmed, the days borrowed
\* from November and from January of the next year are.
C12_Witness ==
    /\ navigatorText = <<"December", 2024>>
    /\ \E i, j, k \in DOMAIN dayElements :
          /\ KeyDate(dayElements[i].date) = Date(2024, 10, 30)
          /\ "dimmed" \in dayElements[i].classList
          /\ KeyDate(dayElements[j].date) = Date(2024, 11, 1)
          /\ "dimmed" \notin dayElements[j].classList
          /\ KeyDate(dayElements[k].date) = Date(2025, 0, 1)
          /\ "dimmed" \in dayElements[k].classList

\* C15: toShort round-trips in every time zone: parsing the YYYY-MM-DD key
\* of a cell as the click handler does and applying toShort again gives the
\* same key, month and day zero-padded to ten characters.
C15_ToShortRoundTrip ==
    \A i \in DOMAIN dayElements :
        /\ Len(dayElements[i].date) = 10
        /\ toShort(NewDateFromString(dayElements[i].date)) = dayElements[i].date

\* ------------------------------------------------------------------------
\* Properties of the widget in its host page (HostSpec)
\* ------------------------------------------------------------------------

IsHost(e, target) == e.type = "host" /\ e.target = target

\* The steps that call updateCalendar.
IsRender(e) ==
    \/ IsClick(e, "navigator-text")
    \/ IsNavigation(e)
    \/ e.type = "timeout"
    \/ IsHost(e, "updateCalendar")

\* The date the step of event e renders, given the widget's three dates and
\* the current date after the step.
RenderDateOf(e, today, displayed, chosen, current) ==
    IF e.type = "constructor" \/ IsClick(e, "navigator-text") THEN today
    ELSE IF IsNavigation(e) THEN displayed
    ELSE IF e.type = "timeout" THEN chosen
    ELSE current

\* The state classes of a cell showing the key of the day d in a render of
\* the month of r, by first match in the order dimmed, today, marked,
\* starred.
ClassesByOrder(key, d, r, current, chosen, starred) ==
    IF ~SameMonth(d, r.year, r.month) THEN {"dimmed"}
    ELSE IF d = current THEN {"today"}
    ELSE IF d = chosen THEN {"marked"}
    ELSE IF \E k \in DOMAIN starred : starred[k] = key THEN {"starred"}
    ELSE {}

\* C11: every cell carries at most one of the classes dimmed, today, marked,
\* starred, and after a render each cell carries exactly the class chosen by
\* first match in that order from the state at the render, whatever it
\* carried before.
C11_OneClassByOrder ==
    /\ [](\A i \in DOMAIN dayElements :
             Cardinality(dayElements[i].classList \cap StateClasses) <= 1)
    /\ [][IsRender(event') =>
            \A i \in DOMAIN dayElements' :
                dayElements'[i].classList =
                    ClassesByOrder(dayElements'[i].date,
                                   KeyDate(dayElements'[i].date),
                                   RenderDateOf(event', dateToday', dateDisplayed',
                                                dateChosen', now'),
                                   now', dateChosen', starredDates')]_vars

\* A render that shows all four classes: today, a chosen other day, a starred
\* third day, and the borrowed days.
C11_Witness ==
    /\ IsRender(event)
    /\ CellsWith(dayElements, "dimmed") # {}
    /\ CellsWith(dayElements, "today") # {}
    /\ CellsWith(dayElements, "marked") # {}
    /\ CellsWith(dayElements, "starred") # {}

\* C13: at every render a cell of the rendered month that is neither today
\* nor the chosen date is starred if and only if its key is in starredDates
\* at that render; a push by the host changes no cell until a render occurs.
C13_StarredAtRender ==
    [][/\ IsRender(event') =>
            \A i \in DOMAIN dayElements' :
                (/\ SameMonth(KeyDate(dayElements'[i].date),
                              RenderDateOf(event', dateToday', dateDisplayed',
                                           dateChosen', now').year,
                              RenderDateOf(event', dateToday', dateDisplayed',
                                           dateChosen', now').month)
                 /\ KeyDate(dayElements'[i].date) # now'
                 /\ KeyDate(dayElements'[i].date) # dateChosen')
                => (("starred" \in dayElements'[i].classList)
                      <=> Includes(starredDates', dayElements'[i].date))
       /\ IsHost(event', "starredDates.push") => dayElements' = dayElements]_vars

\* A render that stars the cell of a pushed key and leaves another cell of
\* the month, neither today nor chosen, without a star.
C13_Witness ==
    /\ IsRender(event)
    /\ \E i, j \in DOMAIN dayElements :
          /\ Includes(starredDates, dayElements[i].date)
          /\ dayElements[i].classList = {"starred"}
          /\ ~Includes(starredDates, dayElements[j].date)
          /\ dayElements[j].classList = {}

\* The steps after which the cells show a finished render: the constructor
\* and every step that calls updateCalendar.
IsRendered(e) == e.type = "constructor" \/ IsRender(e)

\* C17: rendering is idempotent: right after a render, with dateChosen,
\* starredDates and the current date as they are, calling updateCalendar
\* again for the same date leaves the header and the text, key and classes
\* of all 42 cells as the first call left them.
C17_RenderIdempotent ==
    IsRendered(event) =>
        /\ RenderedText(RenderDateOf(event, dateToday, dateDisplayed, dateChosen, now))
              = navigatorText
        /\ RenderedDays(
              getDateArray(RenderDateOf(event, dateToday, dateDisplayed, dateChosen, now)),
              dayElements,
              RenderDateOf(event, dateToday, dateDisplayed, dateChosen, now))
              = dayElements

\* The delayed re-render of a chosen day has run on a grid that also shows
\* today and a starred day.
C17_Witness ==
    /\ event.type = "timeout"
    /\ timers = 0
    /\ CellsWith(dayElements, "marked") # {}
    /\ CellsWith(dayElements, "starred") # {}
    /\ CellsWith(dayElements, "today") # {}

\* C18: dateToday, the date sampled by the constructor, never changes: no
\* navigation, header click, day click, delayed re-render, call of
\* updateCalendar by the host or passing of midnight alters it.
C18_TodayNeverChanges ==
    /\ [](dateToday \in ConstructionDates)
    /\ [][dateToday' = dateToday]_vars

\* A delayed re-render has run after a navigation, a day click and midnight:
\* the anchor, the chosen date and the current date all differ from
\* dateToday.
C18_Witness ==
    /\ event.type = "timeout"
    /\ dateDisplayed # dateToday
    /\ dateChosen # dateToday
    /\ now # dateToday
    /\ dateToday \in ConstructionDates

\* C19: starredDates changes only by a push of the host: no render,
\* navigation, click or timer of the widget adds, removes or reorders an
\* entry.
C19_OnlyHostPushes ==
    [][IF IsHost(event', "starredDates.push")
       THEN /\ Len(starredDates') = Len(starredDates) + 1
            /\ SubSeq(starredDates', 1, Len(starredDates)) = starredDates
       ELSE starredDates' = starredDates]_vars

\* A navigation has rendered a grid while starredDates holds a pushed key.
C19_Witness ==
    /\ IsNavigation(event)
    /\ Len(starredDates) > 0
    /\ timerId > 0

\* C27: at every render the cells classified today are exactly the cells of
\* the rendered month that show the real current date at that render, not the
\* date sampled at construction; after midnight a render classifies the new
\* date as today and no longer the construction day.
C27_TodayIsCurrentDate ==
    [][IsRender(event') =>
          CellsWith(dayElements', "today") =
              { i \in DOMAIN dayElements' :
                  /\ KeyDate(dayElements'[i].date) = now'
                  /\ SameMonth(now',
                               RenderDateOf(event', dateToday', dateDisplayed',
                                            dateChosen', now').year,
                               RenderDateOf(event', dateToday', dateDisplayed',
                                            dateChosen', now').month) }]_vars

\* Midnight has passed and the month of the new date is rendered: its cell
\* is today, the cell of the construction day is in the grid and is not.
C27_Witness ==
    /\ IsRender(event)
    /\ now # dateToday
    /\ \E i, j \in DOMAIN dayElements :
          /\ KeyDate(dayElements[i].date) = now
          /\ "today" \in dayElements[i].classList
          /\ KeyDate(dayElements[j].date) = dateToday
          /\ "today" \notin dayElements[j].classList

\* ------------------------------------------------------------------------
\* Properties of SimpleDatabase (DbSpec)
\* ------------------------------------------------------------------------

\* Call j is a load of the key of the save call i, made after the promise
\* of i had settled, with no other save to that key called between them.
LoadFollowsSave(i, j) ==
    /\ i < j
    /\ calls[i].op = "save"
    /\ calls[j].op = "load"
    /\ calls[j].key = calls[i].key
    /\ i \in calls[j].settledBefore
    /\ \A m \in (i + 1)..(j - 1) :
          ~(calls[m].op = "save" /\ calls[m].key = calls[i].key)

\* C20: a load of key k that follows a save(k, v) resolved with success,
\* with no save to k between them, resolves {success: true, data: v}, also
\* when the transaction of the save fires error or abort after the success
\* of its put request; and a load that reads a key never saved resolves
\* {success: false, message: "Data was nullish"}.
C20_SaveThenLoad ==
    \A j \in DOMAIN calls :
        (calls[j].op = "load" /\ calls[j].request = "success") =>
            /\ \A i \in DOMAIN calls :
                  (LoadFollowsSave(i, j) /\ calls[i].result.success) =>
                      calls[j].result = Result(TRUE, <<>>, <<calls[i].value>>)
            /\ (\A i \in 1..(j - 1) :
                    ~(calls[i].op = "save" /\ calls[i].key = calls[j].key)) =>
                  calls[j].result = Result(FALSE, <<"Data was nullish">>, <<>>)

\* The entries that the step adds to calls.
NewCalls == (Len(calls) + 1)..Len(calls')

\* C21: no operation rejects or throws: in every state the promise of every
\* call is pending or resolved, never rejected; a result with success false
\* carries a message; and once the request of a call has had its success,
\* error or blocked event the promise has settled.
C21_NeverRejects ==
    \A c \in DOMAIN calls :
        /\ ~calls[c].result.rejected
        /\ calls[c].result.success \in BOOLEAN
        /\ (calls[c].result.settled /\ ~calls[c].result.success) =>
              calls[c].result.message # <<>>
        /\ calls[c].request \in {"success", "error", "blocked"} => calls[c].result.settled

\* ------------------------------------------------------------------------
\* Properties of save and open (DbSpec)
\* ------------------------------------------------------------------------

\* The value is not a string, or is a string of blanks only (the empty
\* string included).
IsBlank(x) == x.typeof # "string" \/ \A i \in DOMAIN x.value : x.value[i] = " "

\* The value is not a non-empty string.
IsEmpty(x) == x.typeof # "string" \/ Len(x.value) = 0

ValidationFailure == Result(FALSE, <<"Expected a non-empty string">>, <<>>)

\* A save call made on a linked instance fails validation exactly when
\* refused(key) or refused(value); then it makes no request, else it makes
\* one; and the store changes only by the commit of a save that made one.
SaveValidates(refused(_)) ==
    /\ \A c \in NewCalls :
          (calls'[c].op = "save" /\ _db # 0) =>
              /\ calls'[c].result = ValidationFailure
                    <=> (refused(calls'[c].key) \/ refused(calls'[c].value))
              /\ calls'[c].result = ValidationFailure => calls'[c].request = "none"
              /\ calls'[c].result # ValidationFailure => calls'[c].request = "pending"
              /\ storage' = storage
    /\ storage' # storage =>
          \E c \in DOMAIN calls :
              /\ calls[c].op = "save"
              /\ calls[c].request = "success"
              /\ ~refused(calls[c].key) /\ ~refused(calls[c].value)
              /\ storage' = [storage EXCEPT ![calls[c].key] = <<calls[c].value>>]

\* C22 (as amended): save(key, value) on a linked store fails with
\* 'Expected a non-empty string' exactly when key or value is not a string
\* or is blank after trimming; it then makes no request and writes nothing;
\* otherwise it attempts the write; the stored data change only by the
\* commit of a save that passed validation.
C22_SaveValidatesTrimmed == [][SaveValidates(IsBlank)]_vars

\* A linked save of a value made of blanks has failed validation.
C22_Witness ==
    \E c \in DOMAIN calls :
        /\ calls[c].op = "save"
        /\ calls[c].value = JsString(<<" ">>)
        /\ ~IsBlank(calls[c].key)
        /\ calls[c].result = ValidationFailure
        /\ storage[calls[c].key] = <<>>

\* C22 as stated: save on a linked store fails validation exactly when key
\* or value is not a non-empty string.
C22_Original == [][SaveValidates(IsEmpty)]_vars

\* Every open call was made after the promises of the earlier open calls
\* had settled.
SequentialOpens ==
    \A i, j \in DOMAIN calls :
        (i < j /\ calls[i].op = "open" /\ calls[j].op = "open") =>
            i \in calls[j].settledBefore

\* C23: open on a linked instance resolves {success: true} at once, makes
\* no open request and leaves _db; and when the open calls are sequential
\* the instance has at most one open connection, the one in _db.
C23_OpenIdempotent ==
    [][/\ \A c \in NewCalls :
             (calls'[c].op = "open" /\ _db # 0) =>
                 /\ calls'[c].result = Result(TRUE, <<>>, <<>>)
                 /\ calls'[c].request = "none"
                 /\ _db' = _db
                 /\ connections' = connections
       /\ SequentialOpens' => connections' \subseteq {_db'}]_vars

\* Two sequential open calls: the first opened the connection, the second
\* resolved at once, and one connection is open.
C23_Witness ==
    /\ SequentialOpens
    /\ connections = {_db}
    /\ \E i, j \in DOMAIN calls :
          /\ i < j
          /\ calls[i].op = "open" /\ calls[i].request = "success"
          /\ calls[j].op = "open" /\ calls[j].request = "none"
          /\ calls[j].result = Result(TRUE, <<>>, <<>>)

\* ------------------------------------------------------------------------
\* Properties of reset and of the connections (LifeSpec)
\* ------------------------------------------------------------------------

EmptyStore == [key \in StoredKeys |-> <<>>]

\* The continuation of the reset call c after its _destroy takes this step.
AfterDestroyStep(c) ==
    /\ calls[c].op = "reset"
    /\ calls[c].awaits = c + 1
    /\ calls'[c].awaits # c + 1

\* The promise of the reset call c settles in this step.
ResetSettles(c) ==
    /\ calls[c].op = "reset"
    /\ ~calls[c].result.settled
    /\ calls'[c].result.settled

\* C24: when the _destroy of a reset fails the reset resolves with that
\* result, calls no open and does nothing more; when it succeeds the reset calls open, and
\* resolves with the result of a failed open; it resolves {success: true}
\* only when both succeeded, and then the instance is linked to an open
\* connection and the store is empty unless a save was called after the
\* reset.
C24_ResetShortCircuits ==
    [][\A c \in DOMAIN calls :
          /\ AfterDestroyStep(c) =>
                IF calls[c + 1].result.success
                THEN /\ Len(calls') = Len(calls) + 1
                     /\ calls'[Len(calls')].op = "open"
                     /\ ~calls'[c].result.settled
                ELSE /\ Len(calls') = Len(calls)
                     /\ calls'[c].result = calls[c + 1].result
          /\ ResetSettles(c) =>
                IF calls'[c].result.success
                THEN /\ calls[c + 1].result.success
                     /\ calls[calls[c].awaits].op = "open"
                     /\ calls[calls[c].awaits].result.success
                     /\ calls'[c].result = Result(TRUE, <<>>, <<>>)
                     /\ _db' # 0
                     /\ _db' \in connections'
                     /\ (\A i \in (c + 1)..Len(calls) : calls[i].op # "save") =>
                            storage' = EmptyStore
                ELSE calls'[c].result = calls[calls[c].awaits].result
          /\ (calls[c].op = "reset" /\ calls[c].result.settled) => calls'[c] = calls[c]]_vars

\* A reset made after a committed save has resolved {success: true}: the
\* instance is linked, the store is empty, and a loadAll called afterwards
\* has resolved with the empty mapping.
C24_Witness ==
    \E c \in DOMAIN calls :
        /\ calls[c].op = "reset"
        /\ calls[c].result = Result(TRUE, <<>>, <<>>)
        /\ \E i \in 1..(c - 1) : calls[i].op = "save" /\ calls[i].transaction = "complete"
        /\ _db # 0
        /\ \E j \in (c + 1)..Len(calls) :
              /\ calls[j].op = "loadAll"
              /\ c \in calls[j].settledBefore
              /\ calls[j].result.success
              /\ DOMAIN calls[j].result.data[1] = {}

\* ------------------------------------------------------------------------
\* Properties of loadAll and _loadAllKeys (DbSpec)
\* ------------------------------------------------------------------------

\* The save calls made before call j, each resolved {success: true} before
\* j was called.
SavedBefore(j) ==
    { i \in 1..(j - 1) :
        calls[i].op = "save" /\ i \in calls[j].settledBefore /\ calls[i].result.success }

\* Every save called before call j had resolved {success: true} when j was
\* called.
AfterSuccessfulSaves(j) ==
    \A i \in 1..(j - 1) : calls[i].op = "save" => i \in SavedBefore(j)

\* The value of the last save to key among the calls of saved.
LastSaved(saved, key) ==
    calls[CHOOSE i \in saved :
             /\ calls[i].key = key
             /\ \A m \in saved : calls[m].key = key => m <= i].value

\* C25: a loadAll called after a sequence of save calls that all resolved
\* {success: true} resolves success with a mapping whose keys are the keys
\* saved and whose values are those of the last save to each key, and a
\* _loadAllKeys called then resolves with exactly these keys.
C25_LoadAllReflectsSaves ==
    \A j \in DOMAIN calls :
        (calls[j].request = "success" /\ AfterSuccessfulSaves(j)) =>
            /\ calls[j].op = "loadAll" =>
                  /\ calls[j].result.success
                  /\ DOMAIN calls[j].result.data[1] =
                        { calls[i].key : i \in SavedBefore(j) }
                  /\ \A key \in DOMAIN calls[j].result.data[1] :
                        calls[j].result.data[1][key] = LastSaved(SavedBefore(j), key)
            /\ calls[j].op = "_loadAllKeys" =>
                  /\ calls[j].result.success
                  /\ { calls[j].result.data[1][n] : n \in DOMAIN calls[j].result.data[1] } =
                        { calls[i].key : i \in SavedBefore(j) }

\* ------------------------------------------------------------------------
\* Properties of an instance that is not linked (CloseSpec)
\* ------------------------------------------------------------------------

\* The operations that need a linked instance.
LinkedOps == {"save", "load", "loadAll", "_loadAllKeys", "_loadAllValues", "_destroy"}

\* C26: a call of save, load, loadAll, _loadAllKeys, _loadAllValues or
\* _destroy on an instance that is not linked resolves at once with
\* {success: false, message: 'Database not currently linked'}, whatever its
\* arguments, makes no request and leaves the store and the instance; and a
\* step that closes the linked connection leaves the store and the calls.
C26_NotLinked ==
    [][/\ \A c \in NewCalls :
             (calls'[c].op \in LinkedOps /\ _db = 0) =>
                 /\ calls'[c].result = NotLinked
                 /\ calls'[c].request = "none"
                 /\ calls'[c].transaction = "none"
                 /\ storage' = storage
                 /\ _db' = 0
                 /\ connections' = connections
       /\ (_db # 0 /\ _db' = 0 /\ calls' = calls) =>
             /\ storage' = storage
             /\ connections' = connections \ {_db}]_vars

\* After the instance was opened and closed, a save with an empty key has
\* resolved with the not-linked result, and the store still holds what was
\* saved before the close.
C26_Witness ==
    /\ _db = 0
    /\ \E key \in StoredKeys : storage[key] # <<>>
    /\ \E i, j \in DOMAIN calls :
          /\ calls[i].op = "open" /\ calls[i].request = "success"
          /\ i < j
          /\ calls[j].op = "save"
          /\ calls[j].key = JsString(<<>>)
          /\ calls[j].result = NotLinked

\* ------------------------------------------------------------------------
\* Properties of the link state and of the connections (LifeSpec)
\* ------------------------------------------------------------------------

\* C28: when a reset called on a linked instance resolves with success
\* false, the instance is linked as it was before the call.
C28_FailedResetKeepsLink ==
    [][\A c \in DOMAIN calls :
          (ResetSettles(c) /\ ~calls'[c].result.success /\ calls[c + 1].result # NotLinked) =>
              _db' # 0]_vars

\* C29: every open connection of the instance is the one _db refers to.
C29_OneConnection == connections \subseteq {_db}

\* ------------------------------------------------------------------------
\* Properties of the notes page (PageSpec)
\* ------------------------------------------------------------------------

\* C30: every save made by Ctrl+S that attempts a write has the key of the
\* date whose note the textarea holds; and a key is pushed to starredDates only when a save of
\* that key has resolved {success: true}.
C30_SavesOwnNote ==
    [][/\ \A c \in NewCalls :
             (calls'[c].op = "save" /\ calls'[c].request = "pending") =>
                 calls'[c].key.value = noteOf
       /\ starredDates' # starredDates =>
             \E c \in DOMAIN calls :
                 /\ calls[c].op = "save"
                 /\ calls[c].result.settled
                 /\ calls[c].result.success
                 /\ starredDates' = Append(starredDates, calls[c].key.value)]_vars

====
